---- MODULE Spec2Model ----
(***************************************************************************)
(* Dense evaluation-form multilinear polynomial over a prime field and the *)
(* hypercube pairing-index generators it is driven by.                     *)
(*                                                                         *)
(* Evaluation vectors are Rust Vec<F>, indexed from 0; here they are TLA+  *)
(* sequences, so position p of the source is element p + 1.                *)
(***************************************************************************)
EXTENDS Integers, Sequences, FiniteSets, TLC

(***************************************************************************)
(* Bounds of the model and constants of the program.                       *)
(***************************************************************************)
\* largest variable count of a receiver polynomial
MaxVars == 3

\* #[modulus = "17"] of the benchmark field Fq
MODULUS == 17

\* width of usize, the type of n_vars and of `1 << n_vars`
USIZE_BITS == 64

\* number of values of u8, the type `as u8` casts to
U8_RANGE == 256

\* field values used as assignments: the zero element, the one element and a
\* value that takes the interpolation branch
FieldSample == {0, 1, 2}

\* debug builds check integer overflow and panic, release builds wrap
Builds == {"debug", "release"}

(***************************************************************************)
(* Field arithmetic of F: PrimeField (canonical representatives).          *)
(***************************************************************************)
Fr(x) == x % MODULUS

field_sub(a, b) == (a - b) % MODULUS

field_mul(a, b) == (a * b) % MODULUS

is_zero(a) == a = 0

is_one(a) == a = 1

(***************************************************************************)
(* Machine integers.                                                       *)
(***************************************************************************)
Pow2(n) == 2 ^ n

\* `1 << n` on usize: exact below the width; at or above it a debug build
\* panics and a release build masks the shift amount to the width
shl_one(b, n) ==
  IF n < USIZE_BITS THEN [panic |-> FALSE, val |-> Pow2(n)]
  ELSE IF b = "debug" THEN [panic |-> TRUE, val |-> 0]
  ELSE [panic |-> FALSE, val |-> Pow2(n % USIZE_BITS)]

\* `x as u8`
as_u8(x) == x % U8_RANGE

(***************************************************************************)
(* Results.  Every call ends in one record: status "ok", "err" (an Err     *)
(* returned to the caller) or "panic"; the other fields are the payload.   *)
(***************************************************************************)
NoPoly == [n_vars |-> 0, evaluations |-> << >>]

Outcome(st, msg, p, v, prs, n) ==
  [status |-> st, err |-> msg, poly |-> p, value |-> v, pairs |-> prs, ops |-> n]

Ok_poly(p, n) == Outcome("ok", "", p, 0, << >>, n)

Ok_value(v, n) == Outcome("ok", "", NoPoly, v, << >>, n)

Ok_pairs(prs) == Outcome("ok", "", NoPoly, 0, prs, 0)

Err(msg, n) == Outcome("err", msg, NoPoly, 0, << >>, n)

Panic(n) == Outcome("panic", "", NoPoly, 0, << >>, n)

NoResult == Outcome("none", "", NoPoly, 0, << >>, 0)

(***************************************************************************)
(* Hypercube pairing index generators.                                     *)
(***************************************************************************)
\* bit position (from the least significant bit) of variable `index` in an
\* n_vars-bit hypercube index: variable 0 is the most significant bit
insert_position(n_vars, index) == n_vars - index - 1

\* x with a bit b inserted at bit position pos
insert_bit(x, pos, b) ==
  (x \div Pow2(pos)) * Pow2(pos + 1) + b * Pow2(pos) + (x % Pow2(pos))

\* the generators reject a target variable that is not a variable of the vector
valid_pairing(n_vars, index) == index < n_vars

\* bit-insertion generator: for each reduced index i the pair (low, high) with
\* a 0 bit, respectively a 1 bit, inserted at the target variable's position.
\* Only called with valid_pairing arguments.
index_pair(n_vars, index) ==
  [i \in 1..Pow2(n_vars - 1) |->
     << insert_bit(i - 1, insert_position(n_vars, index), 0),
        insert_bit(i - 1, insert_position(n_vars, index), 1) >>]

\* shift-based generator: the stride between a pair's low and high member
shift_value(n_vars, index) == Pow2(n_vars - index - 1)

\* the iterator of the shift-based generator: it walks the index space in
\* blocks of 2 * shift, emits the first shift positions of each block and
\* skips the next shift positions
RECURSIVE pairing_index_iter(_, _, _)
pairing_index_iter(current, last, shift) ==
  IF current >= last THEN << >>
  ELSE LET next == current + 1
           skip == IF next % shift = 0 THEN next + shift ELSE next
       IN  << current >> \o pairing_index_iter(skip, last, shift)

\* PairingIndex::new: a Result; the error is the invalid pairing argument
PairingIndex_new(n_vars, index) ==
  IF ~valid_pairing(n_vars, index)
  THEN [ok |-> FALSE, shift |-> 0, lows |-> << >>]
  ELSE [ok |-> TRUE, shift |-> shift_value(n_vars, index),
        lows |-> pairing_index_iter(0, Pow2(n_vars), shift_value(n_vars, index))]

\* faulty variants of pair_of: the members swapped; the shift not added to
\* the low
pair_of_swapped(val, shift) == << val + shift, val >>

pair_of_no_add(val, shift) == << val, shift >>

\* .map(|val| (val, val + shift_value))
pair_of(val, shift) == << val, val + shift >>

\* generate_pair_vector: PairingIndex::new(..).unwrap(), then each low paired
\* with low + shift_value
generate_pair_vector(n_vars, index) ==
  LET it == PairingIndex_new(n_vars, index)
  IN  IF ~it.ok THEN Panic(0)
      ELSE Ok_pairs([i \in 1..Len(it.lows) |-> pair_of(it.lows[i], it.shift)])

\* faulty variant of generate_pair_vector_2: the target counted from the
\* least significant bit
generate_pair_vector_2_lsb(n_vars, index) ==
  IF ~valid_pairing(n_vars, index) THEN Panic(0)
  ELSE Ok_pairs(index_pair(n_vars, n_vars - 1 - index))

\* generate_pair_vector_2: index_pair(n_vars, index).collect(); index_pair
\* returns the iterator itself, so an invalid argument cannot come back as Err
generate_pair_vector_2(n_vars, index) ==
  IF ~valid_pairing(n_vars, index) THEN Panic(0)
  ELSE Ok_pairs(index_pair(n_vars, index))

(***************************************************************************)
(* MultiLinearPolynomial.                                                  *)
(***************************************************************************)
Poly(n, ev) == [n_vars |-> n, evaluations |-> ev]

\* MultiLinearPolynomial::new
new(b, n_vars, evaluations) ==
  LET size == shl_one(b, n_vars)
  IN  IF size.panic THEN Panic(0)
      ELSE IF Len(evaluations) # size.val
      THEN Err("evaluation vec len should equal 2^n_vars", 0)
      ELSE Ok_poly(Poly(n_vars, evaluations), 0)

\* faulty variants of interpolate: the difference taken the wrong way round; the two
\* selections swapped
interpolate_wrong_sign(assignment, left, right) ==
  IF is_zero(assignment) THEN left
  ELSE IF is_one(assignment) THEN right
  ELSE field_sub(left, field_mul(assignment, field_sub(right, left)))

interpolate_swapped(assignment, left, right) ==
  IF is_zero(assignment) THEN right
  ELSE IF is_one(assignment) THEN left
  ELSE field_sub(left, field_mul(assignment, field_sub(left, right)))

\* the match of the inner loop: selection at zero and one, else
\* left - r * (left - right)
interpolate(assignment, left, right) ==
  IF is_zero(assignment) THEN left
  ELSE IF is_one(assignment) THEN right
  ELSE field_sub(left, field_mul(assignment, field_sub(left, right)))

\* faulty variant of pairing_n_vars: the original variable count throughout
pairing_n_vars_fixed(self_n_vars, i) == self_n_vars

\* the variable count the pairing of assignment i is asked for
pairing_n_vars(self_n_vars, i) == self_n_vars - i

\* faulty variant of eval_pair: the result written at the low position
eval_pair_at_low(new_evaluations, assignment, i, left_pos, right_pos) ==
  [new_evaluations EXCEPT ![left_pos + 1] =
     interpolate(assignment, new_evaluations[left_pos + 1],
                 new_evaluations[right_pos + 1])]

\* one iteration of the inner loop: reads the pair, writes position i
eval_pair(new_evaluations, assignment, i, left_pos, right_pos) ==
  [new_evaluations EXCEPT ![i + 1] =
     interpolate(assignment, new_evaluations[left_pos + 1],
                 new_evaluations[right_pos + 1])]

\* indexing new_evaluations[pos] panics outside the vector
in_bounds(new_evaluations, pos) == pos < Len(new_evaluations)

\* the inner loop over one pairing, from pair i on
RECURSIVE pair_loop(_, _, _, _)
pair_loop(st, pairs, assignment, i) ==
  IF st.panic \/ i >= Len(pairs) THEN st
  ELSE LET left_pos == pairs[i + 1][1]
           right_pos == pairs[i + 1][2]
       IN  IF ~in_bounds(st.buf, left_pos) \/ ~in_bounds(st.buf, right_pos)
           THEN [st EXCEPT !.panic = TRUE]
           ELSE pair_loop([panic |-> FALSE,
                           buf |-> eval_pair(st.buf, assignment, i, left_pos, right_pos),
                           ops |-> st.ops + 1],
                          pairs, assignment, i + 1)

\* the outer loop over the assignments, from assignment i on
RECURSIVE assignment_loop(_, _, _, _, _)
assignment_loop(st, self_n_vars, initial_var, assignments, i) ==
  IF st.panic \/ i >= Len(assignments) THEN st
  ELSE IF i > self_n_vars
          \/ ~valid_pairing(as_u8(pairing_n_vars(self_n_vars, i)), as_u8(initial_var))
  THEN [st EXCEPT !.panic = TRUE]
  ELSE assignment_loop(
         pair_loop(st, index_pair(as_u8(pairing_n_vars(self_n_vars, i)), as_u8(initial_var)),
                   assignments[i + 1], 0),
         self_n_vars, initial_var, assignments, i + 1)

\* truncate and return the new polynomial
truncate(b, st, self_n_vars, n_assigned) ==
  IF n_assigned > self_n_vars THEN Panic(st.ops)
  ELSE LET new_n_vars == self_n_vars - n_assigned
           size == shl_one(b, new_n_vars)
       IN  IF size.panic \/ size.val > Len(st.buf) THEN Panic(st.ops)
           ELSE LET r == new(b, new_n_vars, SubSeq(st.buf, 1, size.val))
                IN  [r EXCEPT !.ops = st.ops]

\* MultiLinearPolynomial::partial_evaluate
partial_evaluate(b, self, initial_var, assignments) ==
  LET st == assignment_loop([panic |-> FALSE, buf |-> self.evaluations, ops |-> 0],
                            self.n_vars, initial_var, assignments, 0)
  IN  IF st.panic THEN Panic(st.ops)
      ELSE truncate(b, st, self.n_vars, Len(assignments))

\* faulty variant of arity_ok: only too many assignments are rejected
arity_ok_at_most(self, assignments) == Len(assignments) <= self.n_vars

\* the arity check of evaluate
arity_ok(self, assignments) == Len(assignments) = self.n_vars

\* MultiLinearPolynomial::evaluate
evaluate(b, self, assignments) ==
  IF ~arity_ok(self, assignments)
  THEN Err("evaluate must assign to all variables", 0)
  ELSE LET r == partial_evaluate(b, self, 0, assignments)
       IN  IF r.status = "err" THEN Err(r.err, r.ops)
           ELSE IF r.status = "panic" \/ Len(r.poly.evaluations) = 0 THEN Panic(r.ops)
           ELSE Ok_value(r.poly.evaluations[1], r.ops)

(***************************************************************************)
(* State.  A caller holds one polynomial and makes one call at a time.     *)
(***************************************************************************)
VARIABLES
  build,   \* the build profile of the binary
  poly,    \* the receiver: a polynomial made by new
  pc,      \* "idle", "running" (inside partial_evaluate) or "returned"
  op,      \* the call in progress or just returned, with its arguments
  res,     \* what the call returned
  run      \* the locals of a partial_evaluate in progress

vars == << build, poly, pc, op, res, run >>

Call(name, n, ev, v, a) ==
  [name |-> name, n_vars |-> n, evaluations |-> ev, initial_var |-> v, assignments |-> a]

NoCall == Call("none", 0, << >>, 0, << >>)

IdleRun ==
  [at |-> "idle", j |-> 0, i |-> 0, new_evaluations |-> << >>, start |-> << >>,
   pairs |-> << >>, ops |-> 0]

(***************************************************************************)
(* Inputs.                                                                 *)
(***************************************************************************)
\* evaluation tables of n variables: every scaled unit vector (partial
\* evaluation is linear in the table), a table of pairwise distinct values
\* and a table that is not affine in the index
unit_table(n, p, c) == [i \in 1..Pow2(n) |-> IF i = p THEN c ELSE 0]

distinct_table(n) == [i \in 1..Pow2(n) |-> Fr(i)]

square_table(n) == [i \in 1..Pow2(n) |-> Fr(i * i + 2)]

\* the tables of the unit tests: f(a,b) and f(a,b,c) = 2ab + 3bc
test_table_2 == << 3, 1, 2, 5 >>

test_table_3 == << 0, 0, 0, 3, 0, 0, 2, 5 >>

Tables(n) ==
  { unit_table(n, p, c) : p \in 1..Pow2(n), c \in {1, 3} }
    \cup { distinct_table(n), square_table(n) }

Polys ==
  UNION { { Poly(n, ev) : ev \in Tables(n) } : n \in 0..MaxVars }
    \cup { Poly(2, test_table_2), Poly(3, test_table_3) }

\* receivers whose reads can be told apart by value
DistinctPolys ==
  { Poly(n, distinct_table(n)) : n \in 0..MaxVars }
    \cup { Poly(2, test_table_2), Poly(3, test_table_3) }

\* assignment lists for a polynomial of n variables: up to one too many
Assignments(n) == UNION { [1..k -> FieldSample] : k \in 0..(n + 1) }

\* starting variables: every variable, one past the last, and the first value
\* that `as u8` wraps to 0
InitialVars(n) == 0..(n + 1) \cup {U8_RANGE}

\* variable counts given to new: small ones and the first two that reach the
\* width of usize
NewVarCounts == 0..(MaxVars + 1) \cup {USIZE_BITS, USIZE_BITS + 1}

\* vectors given to new: every length up to one past 2^MaxVars
NewVectors == { [i \in 1..len |-> Fr(i)] : len \in 0..(Pow2(MaxVars) + 1) }

\* arguments of the pairing generators
PairingVarCounts == 0..(MaxVars + 1)

(***************************************************************************)
(* The calls, each one atomic.                                             *)
(***************************************************************************)
Init ==
  /\ build \in Builds
  /\ poly \in Polys
  /\ pc = "idle"
  /\ op = NoCall
  /\ res = NoResult
  /\ run = IdleRun

CallNew ==
  /\ pc = "idle"
  /\ \E n \in NewVarCounts, ev \in NewVectors :
       /\ op' = Call("new", n, ev, 0, << >>)
       /\ res' = new(build, n, ev)
  /\ pc' = "returned"
  /\ UNCHANGED << build, poly, run >>

CallPartialEvaluate ==
  /\ pc = "idle"
  /\ \E v \in InitialVars(poly.n_vars), a \in Assignments(poly.n_vars) :
       /\ op' = Call("partial_evaluate", 0, << >>, v, a)
       /\ res' = partial_evaluate(build, poly, v, a)
  /\ pc' = "returned"
  /\ UNCHANGED << build, poly, run >>

CallEvaluate ==
  /\ pc = "idle"
  /\ \E a \in Assignments(poly.n_vars) :
       /\ op' = Call("evaluate", 0, << >>, 0, a)
       /\ res' = evaluate(build, poly, a)
  /\ pc' = "returned"
  /\ UNCHANGED << build, poly, run >>

CallGeneratePairVector ==
  /\ pc = "idle"
  /\ \E n \in PairingVarCounts, index \in PairingVarCounts :
       /\ op' = Call("generate_pair_vector", n, << >>, index, << >>)
       /\ res' = generate_pair_vector(n, index)
  /\ pc' = "returned"
  /\ UNCHANGED << build, poly, run >>

CallGeneratePairVector2 ==
  /\ pc = "idle"
  /\ \E n \in PairingVarCounts, index \in PairingVarCounts :
       /\ op' = Call("generate_pair_vector_2", n, << >>, index, << >>)
       /\ res' = generate_pair_vector_2(n, index)
  /\ pc' = "returned"
  /\ UNCHANGED << build, poly, run >>

\* the caller drops the result and is ready for the next call
Return ==
  /\ pc = "returned"
  /\ pc' = "idle"
  /\ op' = NoCall
  /\ res' = NoResult
  /\ run' = IdleRun
  /\ UNCHANGED << build, poly >>

Next ==
  \/ CallNew
  \/ CallPartialEvaluate
  \/ CallEvaluate
  \/ CallGeneratePairVector
  \/ CallGeneratePairVector2
  \/ Return

Spec == Init /\ [][Next]_vars

(***************************************************************************)
(* partial_evaluate, one loop iteration at a time: the working buffer      *)
(* new_evaluations is written in place while the pairing is read from it.  *)
(* run.start keeps the buffer as it was when the current assignment's pass *)
(* began.                                                                  *)
(***************************************************************************)
InitBuf ==
  /\ build \in Builds
  /\ poly \in DistinctPolys
  /\ pc = "idle"
  /\ op = NoCall
  /\ res = NoResult
  /\ run = IdleRun

\* let mut new_evaluations = self.evaluations.clone();
PEBegin ==
  /\ pc = "idle"
  /\ \E v \in InitialVars(poly.n_vars), a \in Assignments(poly.n_vars) :
       op' = Call("partial_evaluate", 0, << >>, v, a)
  /\ pc' = "running"
  /\ run' = [IdleRun EXCEPT !.at = "outer", !.new_evaluations = poly.evaluations,
                            !.start = poly.evaluations]
  /\ UNCHANGED << build, poly, res >>

\* the head of the outer loop: the next assignment's pairing, or the
\* truncation and the return once the assignments are used up
PEOuter ==
  /\ pc = "running"
  /\ run.at = "outer"
  /\ IF run.j >= Len(op.assignments)
     THEN /\ res' = truncate(build, [panic |-> FALSE, buf |-> run.new_evaluations,
                                     ops |-> run.ops],
                             poly.n_vars, Len(op.assignments))
          /\ pc' = "returned"
          /\ run' = [run EXCEPT !.at = "done"]
     ELSE IF run.j > poly.n_vars
             \/ ~valid_pairing(as_u8(pairing_n_vars(poly.n_vars, run.j)),
                               as_u8(op.initial_var))
     THEN /\ res' = Panic(run.ops)
          /\ pc' = "returned"
          /\ run' = [run EXCEPT !.at = "done"]
     ELSE /\ run' = [run EXCEPT !.at = "inner", !.i = 0,
                                !.start = run.new_evaluations,
                                !.pairs = index_pair(as_u8(pairing_n_vars(poly.n_vars, run.j)),
                                                     as_u8(op.initial_var))]
          /\ UNCHANGED << pc, res >>
  /\ UNCHANGED << build, poly, op >>

\* one iteration of the inner loop, or its end
PEInner ==
  /\ pc = "running"
  /\ run.at = "inner"
  /\ IF run.i >= Len(run.pairs)
     THEN /\ run' = [run EXCEPT !.at = "outer", !.j = run.j + 1]
          /\ UNCHANGED << pc, res >>
     ELSE LET left_pos == run.pairs[run.i + 1][1]
              right_pos == run.pairs[run.i + 1][2]
          IN  IF ~in_bounds(run.new_evaluations, left_pos)
                 \/ ~in_bounds(run.new_evaluations, right_pos)
              THEN /\ res' = Panic(run.ops)
                   /\ pc' = "returned"
                   /\ run' = [run EXCEPT !.at = "done"]
              ELSE /\ run' = [run EXCEPT
                                !.new_evaluations =
                                   eval_pair(run.new_evaluations,
                                             op.assignments[run.j + 1], run.i,
                                             left_pos, right_pos),
                                !.i = run.i + 1,
                                !.ops = run.ops + 1]
                   /\ UNCHANGED << pc, res >>
  /\ UNCHANGED << build, poly, op >>

NextBuf ==
  \/ PEBegin
  \/ PEOuter
  \/ PEInner
  \/ Return

SpecBuf == InitBuf /\ [][NextBuf]_vars

\* the loop, run step by step, returns what the call returns
BufAgreesWithCall ==
  (pc = "returned" /\ op.name = "partial_evaluate")
    => res = partial_evaluate(build, poly, op.initial_var, op.assignments)

(***************************************************************************)
(* Properties.                                                             *)
(***************************************************************************)
Returned(name) == pc = "returned" /\ op.name = name

\* bit of variable v (variable 0 = most significant) in an n-bit index x
var_bit(x, n, v) == (x \div Pow2(n - v - 1)) % 2

\* x with the bit of variable v removed: the reduced index
remove_var(x, n, v) ==
  (x \div Pow2(n - v)) * Pow2(n - v - 1) + (x % Pow2(n - v - 1))

\* prod_j (r_j if b_j = 1 else 1 - r_j), b_1 the most significant bit of bval
RECURSIVE mle_weight(_, _, _)
mle_weight(rs, bval, j) ==
  IF j > Len(rs) THEN 1
  ELSE LET bit == (bval \div Pow2(Len(rs) - j)) % 2
           w == IF bit = 1 THEN rs[j] ELSE Fr(1 - rs[j])
       IN  Fr(w * mle_weight(rs, bval, j + 1))

\* the original index: bits bval inserted at variables v..v+k-1 of reduced idx
mle_index(n, v, k, idx, bval) ==
  (idx \div Pow2(n - k - v)) * Pow2(n - v) + bval * Pow2(n - v - k)
    + (idx % Pow2(n - k - v))

\* sum over b in {0,1}^k, from bval on
RECURSIVE mle_sum(_, _, _, _, _, _)
mle_sum(e, n, v, rs, idx, bval) ==
  IF bval >= Pow2(Len(rs)) THEN 0
  ELSE Fr(mle_weight(rs, bval, 1) * e[mle_index(n, v, Len(rs), idx, bval) + 1]
          + mle_sum(e, n, v, rs, idx, bval + 1))

\* C1: partial_evaluate(v, [r_1..r_k]) with v + k <= n returns a polynomial of
\* n - k variables with 2^(n-k) evaluations, each the multilinear extension of
\* the table with variables v..v+k-1 fixed to r_1..r_k.
C1_PartialEvaluateIsExtension ==
  (Returned("partial_evaluate")
     /\ op.initial_var + Len(op.assignments) <= poly.n_vars)
    => LET n == poly.n_vars
           k == Len(op.assignments)
       IN  /\ res.status = "ok"
           /\ res.poly.n_vars = n - k
           /\ Len(res.poly.evaluations) = Pow2(n - k)
           /\ \A idx \in 0..(Pow2(n - k) - 1) :
                res.poly.evaluations[idx + 1]
                  = mle_sum(poly.evaluations, n, op.initial_var, op.assignments, idx, 0)

\* two middle variables of the test polynomial fixed, one by interpolation
C1_Witness ==
  /\ Returned("partial_evaluate")
  /\ poly = Poly(3, test_table_3)
  /\ op.initial_var = 1
  /\ op.assignments = << 2, 2 >>
  /\ res.status = "ok"
  /\ res.poly = Poly(1, << 12, 16 >>)

\* the sub-table of the indices whose variable v has bit b, ascending from x
RECURSIVE sub_table(_, _, _, _, _)
sub_table(e, n, v, b, x) ==
  IF x >= Pow2(n) THEN << >>
  ELSE (IF var_bit(x, n, v) = b THEN << e[x + 1] >> ELSE << >>)
         \o sub_table(e, n, v, b, x + 1)

\* C5: partial_evaluate(v, [0]) is the sub-table with variable v's bit 0 and
\* partial_evaluate(v, [1]) the sub-table with that bit 1, in ascending order;
\* for v = 0 these are the first and the second half of the vector.
C5_BoundaryIsSelection ==
  (Returned("partial_evaluate")
     /\ Len(op.assignments) = 1
     /\ op.initial_var < poly.n_vars
     /\ op.assignments[1] \in {0, 1})
    => LET n == poly.n_vars
           e == poly.evaluations
           b == op.assignments[1]
       IN  /\ res.status = "ok"
           /\ res.poly.evaluations = sub_table(e, n, op.initial_var, b, 0)
           /\ op.initial_var = 0
                => res.poly.evaluations
                     = SubSeq(e, b * Pow2(n - 1) + 1, (b + 1) * Pow2(n - 1))

\* the middle variable of a three-variable table of distinct values set to 1
C5_Witness ==
  /\ Returned("partial_evaluate")
  /\ poly = Poly(3, distinct_table(3))
  /\ op.initial_var = 1
  /\ op.assignments = << 1 >>
  /\ res.poly.evaluations = << 3, 4, 7, 8 >>

\* the polynomial reduced one variable at a time, from assignment j on
RECURSIVE reduce_one_at_a_time(_, _, _, _)
reduce_one_at_a_time(b, p, a, j) ==
  IF j > Len(a) THEN p.evaluations[1]
  ELSE reduce_one_at_a_time(b, partial_evaluate(b, p, 0, << a[j] >>).poly, a, j + 1)

\* C4: evaluate([a_1..a_n]) equals the single remaining evaluation of
\* partial_evaluate(0,[a_1]).partial_evaluate(0,[a_2])...partial_evaluate(0,[a_n]).
C4_EvaluateIsStepwiseReduction ==
  (Returned("evaluate") /\ Len(op.assignments) = poly.n_vars)
    => /\ res.status = "ok"
       /\ res.value = reduce_one_at_a_time(build, poly, op.assignments, 1)

\* a full evaluation of the three-variable test polynomial off the hypercube
C4_Witness ==
  /\ Returned("evaluate")
  /\ poly = Poly(3, test_table_3)
  /\ op.assignments = << 2, 1, 2 >>
  /\ res.status = "ok"
  /\ res.value = 10

\* C7: evaluate with an assignment list shorter or longer than n_vars returns
\* the arity-mismatch error before any arithmetic, and leaves the polynomial's
\* n_vars and evaluations as they were.
C7_ArityMismatchRejected ==
  [][(pc = "idle" /\ pc' = "returned" /\ op'.name = "evaluate"
        /\ Len(op'.assignments) # poly.n_vars)
       => /\ res'.status = "err"
          /\ res'.err = "evaluate must assign to all variables"
          /\ res'.ops = 0
          /\ poly' = poly]_vars

\* a two-variable polynomial evaluated at one value only
C7_Witness ==
  /\ Returned("evaluate")
  /\ poly.n_vars = 2
  /\ Len(op.assignments) = 1
  /\ res.status = "err"

\* a pairing was asked of either generator with a target that is a variable
PairingReturned ==
  /\ pc = "returned"
  /\ op.name \in {"generate_pair_vector", "generate_pair_vector_2"}
  /\ op.n_vars >= 1
  /\ op.initial_var < op.n_vars

\* C2: for n_vars >= 1 and target_variable < n_vars the generator yields exactly
\* 2^(n_vars-1) pairs (low, high) with high = low + 2^(n_vars-target-1), the
\* target bit 0 in low and 1 in high and all other bits equal, and every index
\* of [0, 2^n_vars) occurs exactly once among all low and high members.
C2_PairingPartitionsHypercube ==
  PairingReturned
    => LET n == op.n_vars
           t == op.initial_var
           prs == res.pairs
           members == { prs[i][1] : i \in 1..Len(prs) } \cup { prs[i][2] : i \in 1..Len(prs) }
       IN  /\ res.status = "ok"
           /\ Len(prs) = Pow2(n - 1)
           /\ \A i \in 1..Len(prs) :
                /\ prs[i][2] = prs[i][1] + Pow2(n - t - 1)
                /\ var_bit(prs[i][1], n, t) = 0
                /\ var_bit(prs[i][2], n, t) = 1
                /\ remove_var(prs[i][1], n, t) = remove_var(prs[i][2], n, t)
           /\ members = 0..(Pow2(n) - 1)
           /\ Cardinality(members) = 2 * Len(prs)

\* the shift-based pairing of the middle variable of three
C2_Witness ==
  /\ Returned("generate_pair_vector")
  /\ op.n_vars = 3
  /\ op.initial_var = 1
  /\ res.pairs = << << 0, 2 >>, << 1, 3 >>, << 4, 6 >>, << 5, 7 >> >>

\* C6: for target_variable < n_vars the shift-based generator (each low paired
\* with low + shift_value) and the bit-insertion generator produce the same
\* pairs, in the same order.
C6_GeneratorsAgree ==
  /\ (PairingReturned /\ op.name = "generate_pair_vector")
       => res = generate_pair_vector_2(op.n_vars, op.initial_var)
  /\ (PairingReturned /\ op.name = "generate_pair_vector_2")
       => res = generate_pair_vector(op.n_vars, op.initial_var)

\* the bit-insertion pairing of the last variable of three
C6_Witness ==
  /\ Returned("generate_pair_vector_2")
  /\ op.n_vars = 3
  /\ op.initial_var = 2
  /\ res.pairs = << << 0, 1 >>, << 2, 3 >>, << 4, 5 >>, << 6, 7 >> >>

\* C9: the pairing is enumerated in ascending reduced-index order: the i-th
\* pair (from 0) is the one whose low index, with the target bit removed, is
\* i, so the low and the high indices increase strictly along the sequence.
C9_AscendingReducedIndex ==
  PairingReturned
    => LET n == op.n_vars
           t == op.initial_var
           prs == res.pairs
       IN  /\ res.status = "ok"
           /\ \A i \in 1..Len(prs) : remove_var(prs[i][1], n, t) = i - 1
           /\ \A i \in 1..(Len(prs) - 1) :
                /\ prs[i][1] < prs[i + 1][1]
                /\ prs[i][2] < prs[i + 1][2]

\* the bit-insertion pairing of the first variable of three
C9_Witness ==
  /\ Returned("generate_pair_vector_2")
  /\ op.n_vars = 3
  /\ op.initial_var = 0
  /\ res.pairs = << << 0, 4 >>, << 1, 5 >>, << 2, 6 >>, << 3, 7 >> >>

\* C10: in the reused working buffer, at every assignment step j and reduced
\* index i, the entries read at low_i and high_i still hold their values from
\* the start of step j (no earlier write of the step reached them: low_i >= i,
\* high_i > i), and both lie inside the prefix [0, 2^(n_vars - j)) written by
\* the previous step.
C10_ReadsAreFresh ==
  (pc = "running" /\ run.at = "inner" /\ run.i < Len(run.pairs))
    => LET low == run.pairs[run.i + 1][1]
           high == run.pairs[run.i + 1][2]
           prefix == Pow2(poly.n_vars - run.j)
       IN  /\ low >= run.i
           /\ high > run.i
           /\ low < prefix
           /\ high < prefix
           /\ run.new_evaluations[low + 1] = run.start[low + 1]
           /\ run.new_evaluations[high + 1] = run.start[high + 1]
           /\ \A q \in run.i..(prefix - 1) :
                run.new_evaluations[q + 1] = run.start[q + 1]

\* the second assignment's pass over a three-variable table, after its first
\* write and before its second read
C10_Witness ==
  /\ pc = "running"
  /\ run.at = "inner"
  /\ poly.n_vars = 3
  /\ run.j = 1
  /\ run.i = 1
  /\ run.i < Len(run.pairs)
  /\ run.new_evaluations # run.start

\* C3, as stated: new(n_vars, evaluations) succeeds iff the length is
\* 2^n_vars, storing the inputs, and otherwise returns the length-mismatch
\* error.  (A vector of length 2^n_vars has more than n_vars elements.)
C3_NewIffLengthMatches ==
  Returned("new")
    => LET fits == /\ op.n_vars < Len(op.evaluations)
                   /\ Len(op.evaluations) = Pow2(op.n_vars)
       IN  /\ res.status = "ok" <=> fits
           /\ res.status = "ok" => res.poly = Poly(op.n_vars, op.evaluations)
           /\ res.status # "ok"
                => /\ res.status = "err"
                   /\ res.err = "evaluation vec len should equal 2^n_vars"

\* C8, as stated: a pairing asked for a variable position at or beyond the
\* current variable count, through partial_evaluate(initial_var, assignments)
\* with initial_var + assignments.len() > n_vars, comes back to the caller as
\* an explicit failure result, never as a panic or a polynomial.
C8_InvalidPairingIsAnError ==
  (Returned("partial_evaluate")
     /\ Len(op.assignments) >= 1
     /\ op.initial_var + Len(op.assignments) > poly.n_vars)
    => res.status = "err"

====
